---- MODULE Spec2Model ----
(***************************************************************************)
(* Growth Garden front-end: the tree-health evaluator (lib/tree-health),   *)
(* the growth-stage mappers of the goal card and of the goal-actions       *)
(* modal, and the analytics calculator (lib/analytics).                    *)
(*                                                                         *)
(* Time.  The code measures time in milliseconds.  The model measures it   *)
(* in ticks, TicksPerHour ticks to the hour, so a quantity the code holds  *)
(* in (fractional) hours is held here in ticks: "72 hours" is Hours(72).   *)
(* The local time zone is a fixed offset from UTC (no DST change), so a    *)
(* calendar day is TicksPerDay ticks and day d starts at d * TicksPerDay.  *)
(***************************************************************************)
EXTENDS Integers, Sequences, FiniteSets, TLC

VARIABLES
    \* tree-health evaluator: the argument, the clock reading, the result
    lastWatered, now, health, healthPc,
    \* growth-stage mappers: the goal shown, the component showing it, the result
    goal, mapper, plant, plantPc,
    \* analytics calculator: the goals and actions handed in, the result
    goals, actions, analytics, analyticsPc,
    \* per-goal report: the result (the goals and actions are its arguments)
    report, reportPc,
    \* activity trends: the length of the window, the result
    days, trends, trendsPc,
    \* CSV export: the data and the export type handed in, the lines of the text
    data, type, csv, csvPc,
    \* the export made twice: the clock reading of the second export, the
    \* results of the first
    clockLater, firstRun,
    \* auth session: the token in the URL, the token in localStorage, the
    \* provider's user and loading flag, the initial check, the sign-in or
    \* sign-up call, the sign-out calls and the other API requests in flight
    urlToken, authToken, user, loading, checkPc, checkAnswer,
    signPc, signKind, signAnswer, signResult,
    signOuts, signOutAnswer, signOutResult, requests,
    \* action item: the reflection modal, the reflection save and the
    \* completion requests, the action's status, the handler that ran last
    isReflectionModalOpen, reflectionPending, completeRequests, completesInFlight,
    actionStatus, flowEvent,
    \* daily-habits check-in: the record on the server, the query's data and
    \* loading flag, the fetch and the save in flight, the saves so far
    \* and the form's isEditing flag
    serverHabit, existingHabit, isLoading, habitFetch, habitSave, savedOnce, habitSaves,
    isEditing,
    \* language provider: the stored preference, the active language, the
    \* provider's position, the result of the last t(key)
    \* and the calls of setLanguage so far
    savedLanguage, language, languagePc, translation, languageChanges

healthVars == <<lastWatered, now, health, healthPc>>
plantVars == <<goal, mapper, plant, plantPc>>
analyticsVars == <<goals, actions, analytics, analyticsPc>>
reportVars == <<report, reportPc>>
trendsVars == <<days, trends, trendsPc>>
csvVars == <<data, type, csv, csvPc>>
clockVars == <<clockLater, firstRun>>
exportVars == <<reportVars, trendsVars, csvVars, clockVars>>
calculatorVars == <<healthVars, plantVars, analyticsVars, exportVars>>
authVars ==
    <<urlToken, authToken, user, loading, checkPc, checkAnswer, signPc, signKind, signAnswer,
      signResult, signOuts, signOutAnswer, signOutResult, requests>>
flowVars ==
    <<isReflectionModalOpen, reflectionPending, completeRequests, completesInFlight,
      actionStatus, flowEvent>>
habitVars ==
    <<serverHabit, existingHabit, isLoading, habitFetch, habitSave, savedOnce, habitSaves,
      isEditing>>
languageVars == <<savedLanguage, language, languagePc, translation, languageChanges>>
appVars == <<authVars, flowVars, habitVars, languageVars>>
otherThanAuth == <<calculatorVars, flowVars, habitVars, languageVars>>
otherThanFlow == <<calculatorVars, authVars, habitVars, languageVars>>
otherThanHabits == <<calculatorVars, authVars, flowVars, languageVars>>
otherThanLanguage == <<calculatorVars, authVars, flowVars, habitVars>>
vars == <<calculatorVars, appVars>>

(***************************************************************************)
(* Bounds of the model.                                                    *)
(***************************************************************************)
TicksPerHour == 2
\* last-watered instants range over the first MaxWateredHours hours
MaxWateredHours == 2
\* clock readings of the health evaluator range over 0 .. MaxNowHours hours
MaxNowHours == 170
\* goal levels range over 0 .. MaxLevel
MaxLevel == 6
\* completion dates range over WindowDays calendar days from WindowStart
WindowDays == 7
\* the longest action list whose completion dates vary
MaxStreakActions == 4
\* the longest action list whose status, completion flag and XP vary
MaxCountActions == 3
\* the longest goal list
MaxGoals == 3
\* the longest action list of an export made twice
MaxTwiceActions == 2
\* the most sign-out calls, and the most other API requests, in flight at once
MaxSignOuts == 2
MaxRequests == 2
\* Start or Rescue is pressed while fewer completion requests than this were sent
MaxCompleteRequests == 3
\* the most presses of Save in the daily-habits check-in
MaxSaves == 4
\* the most calls of setLanguage
MaxLanguageChanges == 5
\* the longest action list handed to the per-goal report
MaxReportActions == 3
\* the longest trailing window of the activity trends, and the longest action
\* list handed to them
MaxTrendDays == 3
MaxTrendActions == 3

Hours(n) == n * TicksPerHour
TicksPerDay == Hours(24)

Max(a, b) == IF a >= b THEN a ELSE b
Min(a, b) == IF a <= b THEN a ELSE b

(***************************************************************************)
(* lib/tree-health.ts                                                      *)
(***************************************************************************)
WarningHours == 72
DeathHours == 168
DefaultHoursSinceWatered == 24
DefaultDaysSinceWatered == 1

\* A JavaScript Date: a time value, or the invalid date (time value NaN).
InvalidDate == [valid |-> FALSE, time |-> 0]
DateAt(t) == [valid |-> TRUE, time |-> t]

\* The values calculateTreeHealth may be handed: null, undefined, a string
\* (empty, not a date, or the ISO text of an instant) or a Date object.
NoValue(k) == [kind |-> k, text |-> "", date |-> InvalidDate]
StringValue(txt, t) == [kind |-> "string", text |-> txt, date |-> DateAt(t)]
DateValue(d) == [kind |-> "date", text |-> "", date |-> d]

\* new Date(string): the instant an ISO text denotes, the invalid date for
\* any other text.
DateParse(s) == IF s.text = "iso" THEN s.date ELSE InvalidDate

\* !lastWatered: null, undefined and the empty string are falsy.
IsFalsy(v) == v.kind \in {"null", "undefined"} \/ (v.kind = "string" /\ v.text = "")

ToDate(v) == IF v.kind = "string" THEN DateParse(v) ELSE v.date

RecentlyWatered ==
    [status |-> "healthy",
     hoursUntilDeath |-> Hours(DeathHours - DefaultHoursSinceWatered),
     hoursUntilWarning |-> Hours(WarningHours - DefaultHoursSinceWatered),
     daysSinceWatered |-> DefaultDaysSinceWatered]

\* (now - lastWatered) / (1000 * 60 * 60), in ticks
HoursSinceWatered(lastWateredDate, clock) == clock - lastWateredDate.time

HoursUntilNoFloor(limit, hoursSince) == Hours(limit) - hoursSince
HoursUntil(limit, hoursSince) == Max(0, Hours(limit) - hoursSince)

\* Math.floor(hoursSinceWatered / 24)
DaysSinceWateredCeil(hoursSince) == (hoursSince + TicksPerDay - 1) \div TicksPerDay
DaysSinceWatered(hoursSince) == hoursSince \div TicksPerDay

\* the mutant: a tree never withers
HealthStatusTwoLevels(hoursSince) ==
    IF hoursSince >= Hours(WarningHours) THEN "warning" ELSE "healthy"
HealthStatusStrict(hoursSince) ==
    IF hoursSince > Hours(DeathHours) THEN "withered"
    ELSE IF hoursSince > Hours(WarningHours) THEN "warning"
    ELSE "healthy"
HealthStatus(hoursSince) ==
    IF hoursSince >= Hours(DeathHours) THEN "withered"
    ELSE IF hoursSince >= Hours(WarningHours) THEN "warning"
    ELSE "healthy"

\* the mutant: an unparsable date is not caught and counts as the epoch
IsInvalidNever(d) == FALSE
IsInvalid(d) == ~d.valid

calculateTreeHealth(v, clock) ==
    IF IsFalsy(v) THEN RecentlyWatered
    ELSE LET lastWateredDate == ToDate(v) IN
         IF IsInvalid(lastWateredDate) THEN RecentlyWatered
         ELSE LET hoursSinceWatered == HoursSinceWatered(lastWateredDate, clock) IN
              [status |-> HealthStatus(hoursSinceWatered),
               hoursUntilDeath |-> HoursUntil(DeathHours, hoursSinceWatered),
               hoursUntilWarning |-> HoursUntil(WarningHours, hoursSinceWatered),
               daysSinceWatered |-> DaysSinceWatered(hoursSinceWatered)]

WateredInstants == 0 .. Hours(MaxWateredHours)
NowInstants == 0 .. Hours(MaxNowHours)

LastWateredValues ==
    {NoValue("null"), NoValue("undefined")}
    \cup {StringValue("", 0), StringValue("not a date", 0)}
    \cup {StringValue("iso", t) : t \in WateredInstants}
    \cup {DateValue(DateAt(t)) : t \in WateredInstants}
    \cup {DateValue(InvalidDate)}

NoHealth == [status |-> "none", hoursUntilDeath |-> 0, hoursUntilWarning |-> 0,
             daysSinceWatered |-> 0]

(***************************************************************************)
(* The growth-stage mappers: getPlantVisualization of the goal card        *)
(* (goal-tree-card) and of the goal-actions modal.  A stage is a string of *)
(* emoji, held here as the sequence of their names; reading an array       *)
(* outside its indices gives undefined.                                    *)
(***************************************************************************)
Undefined == <<"undefined">>

Seedling == "seedling"
Herb == "herb"
Tree == "tree"
Blossom == "blossom"
Wilted == "wilted"

SproutStages == << <<Seedling>>, <<Herb>>, <<Seedling, Herb>>, <<Seedling, Herb, Seedling>> >>
HerbStages == << <<Herb>>, <<Seedling, Herb>>, <<Herb, Seedling, Herb>>,
                 <<Herb, Seedling, Herb, Seedling>> >>
TreeStages == << <<Seedling>>, <<Herb>>, <<Tree>>, <<Tree, Herb>> >>
CardFlowerStages == << <<Blossom>>, <<Blossom, Herb>>, <<Blossom, Herb, Blossom>>,
                       <<Blossom, Herb, Blossom, Herb>> >>
ModalFlowerStages == << <<Seedling>>, <<Herb>>, <<Blossom>>, <<Blossom, Herb>> >>

\* the mutant: an unknown plant type falls back to the tree stages
growthStagesTreeFallback(flowerStages, plantType) ==
    CASE plantType = "sprout" -> SproutStages
      [] plantType = "herb" -> HerbStages
      [] plantType = "tree" -> TreeStages
      [] plantType = "flower" -> flowerStages
      [] OTHER -> TreeStages
\* growthStages[plantType] || growthStages.sprout
growthStages(flowerStages, plantType) ==
    CASE plantType = "sprout" -> SproutStages
      [] plantType = "herb" -> HerbStages
      [] plantType = "tree" -> TreeStages
      [] plantType = "flower" -> flowerStages
      [] OTHER -> SproutStages

\* array[index], indices from 0
At(array, index) ==
    IF index >= 0 /\ index < Len(array) THEN array[index + 1] ELSE Undefined

\* the mutant: the stages cycle instead of saturating
stageIndexCyclic(level, stages) == (level - 1) % Len(stages)
stageIndex(level, stages) == Min(level - 1, Len(stages) - 1)

GrowthStage(flowerStages, g) ==
    LET stages == growthStages(flowerStages, g.plantType)
    IN At(stages, stageIndex(g.currentLevel, stages))

WitheredPlant(plantType) ==
    CASE plantType = "flower" -> <<Wilted>>
      [] plantType = "tree" -> <<Tree>>
      [] plantType = "herb" -> <<Herb>>
      [] plantType = "sprout" -> <<Seedling>>
      [] OTHER -> <<Wilted>>

\* goal-tree-card
CardPlantVisualization(g) ==
    IF g.status = "withered" THEN WitheredPlant(g.plantType)
    ELSE GrowthStage(CardFlowerStages, g)

\* goal-actions-modal
ModalPlantVisualization(g) == GrowthStage(ModalFlowerStages, g)

getPlantVisualization(m, g) ==
    IF m = "card" THEN CardPlantVisualization(g) ELSE ModalPlantVisualization(g)

PlantTypes == {"sprout", "herb", "tree", "flower", "cactus"}
GoalStatuses == {"active", "completed", "withered"}
Levels == 0 .. MaxLevel
Mappers == {"card", "modal"}

ShownGoals == [plantType : PlantTypes, currentLevel : Levels, status : GoalStatuses]

PlantIdle ==
    /\ goal = [plantType |-> "sprout", currentLevel |-> 1, status |-> "active"]
    /\ mapper = "card"
    /\ plant = Undefined
    /\ plantPc = "idle"

(***************************************************************************)
(* Dates of the analytics calculator.  A string is the sequence of its     *)
(* UTF-16 code units; Date.prototype.toDateString() gives the local date   *)
(* as "Www Mmm DD YYYY" and new Date(thatString) the local midnight of     *)
(* that date.  Calendar days are counted from 1970-01-01 (a Thursday).     *)
(***************************************************************************)
\* days from 1970-01-01 to year y, month m (1..12), day d
DaysFromCivil(y, m, d) ==
    LET yy == IF m <= 2 THEN y - 1 ELSE y
        era == yy \div 400
        yoe == yy - era * 400
        mp == (m + 9) % 12
        doy == (153 * mp + 2) \div 5 + d - 1
        doe == yoe * 365 + yoe \div 4 - yoe \div 100 + doy
    IN era * 146097 + doe - 719468

\* the year, month and day of calendar day z
CivilFromDays(z) ==
    LET zz == z + 719468
        era == zz \div 146097
        doe == zz - era * 146097
        yoe == (doe - doe \div 1460 + doe \div 36524 - doe \div 146096) \div 365
        doy == doe - (365 * yoe + yoe \div 4 - yoe \div 100)
        mp == (5 * doy + 2) \div 153
        d == doy - (153 * mp + 2) \div 5 + 1
        m == IF mp < 10 THEN mp + 3 ELSE mp - 9
        y == yoe + era * 400 + (IF m <= 2 THEN 1 ELSE 0)
    IN [year |-> y, month |-> m, day |-> d]

\* getDay(): 0 is Sunday
DayOfWeek(z) == (z + 4) % 7

\* "Sun", "Mon", ... and "Jan", "Feb", ... as code units
DayNames == << <<83, 117, 110>>, <<77, 111, 110>>, <<84, 117, 101>>, <<87, 101, 100>>,
               <<84, 104, 117>>, <<70, 114, 105>>, <<83, 97, 116>> >>
MonthNames == << <<74, 97, 110>>, <<70, 101, 98>>, <<77, 97, 114>>, <<65, 112, 114>>,
                 <<77, 97, 121>>, <<74, 117, 110>>, <<74, 117, 108>>, <<65, 117, 103>>,
                 <<83, 101, 112>>, <<79, 99, 116>>, <<78, 111, 118>>, <<68, 101, 99>> >>
Space == <<32>>
Digit(n) == 48 + n
TwoDigits(n) == <<Digit(n \div 10), Digit(n % 10)>>
FourDigits(n) ==
    <<Digit(n \div 1000), Digit((n \div 100) % 10), Digit((n \div 10) % 10), Digit(n % 10)>>
Number(digits) ==
    LET RECURSIVE Value(_)
        Value(k) == IF k = 0 THEN 0 ELSE 10 * Value(k - 1) + (digits[k] - 48)
    IN Value(Len(digits))

\* the local calendar day an instant falls on
LocalDay(t) == t \div TicksPerDay

\* new Date(t).toDateString()
toDateString(t) ==
    LET z == LocalDay(t)
        c == CivilFromDays(z)
    IN DayNames[DayOfWeek(z) + 1] \o Space \o MonthNames[c.month] \o Space
       \o TwoDigits(c.day) \o Space \o FourDigits(c.year)

\* new Date(dateString).getTime(): the day name is not read
DateStringTime(str) ==
    LET name == SubSeq(str, 5, 7)
        m == CHOOSE i \in 1 .. 12 : MonthNames[i] = name
    IN DaysFromCivil(Number(SubSeq(str, 12, 15)), m, Number(SubSeq(str, 9, 10))) * TicksPerDay

\* a < b in the order of Array.prototype.sort() without a comparator:
\* code unit by code unit, a proper prefix first
RECURSIVE StringLess(_, _)
StringLess(a, b) ==
    IF b = <<>> THEN FALSE
    ELSE IF a = <<>> THEN TRUE
    ELSE IF Head(a) # Head(b) THEN Head(a) < Head(b)
    ELSE StringLess(Tail(a), Tail(b))

\* array.sort(): stable, ascending in StringLess
RECURSIVE InsertSorted(_, _)
InsertSorted(x, sorted) ==
    IF sorted = <<>> THEN <<x>>
    ELSE IF StringLess(x, Head(sorted)) THEN <<x>> \o sorted
    ELSE <<Head(sorted)>> \o InsertSorted(x, Tail(sorted))
RECURSIVE Sort(_)
Sort(array) ==
    IF array = <<>> THEN <<>>
    ELSE InsertSorted(array[Len(array)], Sort(SubSeq(array, 1, Len(array) - 1)))

\* Array.from(new Set(array)): the first occurrence of each element, in order
RECURSIVE Unique(_)
Unique(array) ==
    IF array = <<>> THEN <<>>
    ELSE LET front == Unique(SubSeq(array, 1, Len(array) - 1))
             last == array[Len(array)]
         IN IF \E i \in 1 .. Len(front) : front[i] = last THEN front
            ELSE Append(front, last)

(***************************************************************************)
(* lib/analytics.ts                                                        *)
(***************************************************************************)
\* An optional timestamp (completedAt): null, or the text of an instant.
NoTime == [present |-> FALSE, time |-> 0]
TimeAt(t) == [present |-> TRUE, time |-> t]

\* An action as the API hands it over.  isCompleted is the property the
\* calculator reads: "true", "false", or "absent" (the property is not there:
\* the dashboard's Action has only status).
\* createdAt is the instant the action was created.
ActionOf(g, st, flag, xp, created, at) ==
    [goalId |-> g, status |-> st, isCompleted |-> flag, xpReward |-> xp,
     createdAt |-> created, completedAt |-> at]

GoalNames == <<"Run", "Read", "Rest">>
\* A goal as the API hands it over.
GoalOf(i, st, lvl) ==
    [id |-> i, name |-> GoalNames[i], plantType |-> "sprout", currentLevel |-> lvl,
     currentXP |-> 10 * lvl, status |-> st]

\* a.isCompleted as a condition: undefined and false are falsy
IsCompleted(a) == a.isCompleted = "true"

\* numbers.reduce((sum, x) => sum + x, 0)
RECURSIVE Sum(_)
Sum(numbers) == IF numbers = <<>> THEN 0 ELSE Head(numbers) + Sum(Tail(numbers))

\* Math.round(n / d) for n >= 0, d > 0: halves round up
RoundDiv(n, d) == (2 * n + d) \div (2 * d)

\* completionRate: Math.round((completedActions / totalActions) * 100), 0 for
\* no action
CompletionRateFloored(completedActions, totalActions) ==
    IF totalActions > 0 THEN (100 * completedActions) \div totalActions ELSE 0
CompletionRate(completedActions, totalActions) ==
    IF totalActions > 0 THEN RoundDiv(100 * completedActions, totalActions) ELSE 0

\* averageGoalLevel, in tenths: Math.round(mean * 10) / 10 of the mean of
\* currentLevel, 0 for no goal
AverageGoalLevelTruncated(gs) ==
    IF Len(gs) > 0
    THEN (10 * Sum([i \in 1 .. Len(gs) |-> gs[i].currentLevel])) \div Len(gs)
    ELSE 0
AverageGoalLevel(gs) ==
    IF Len(gs) > 0
    THEN RoundDiv(10 * Sum([i \in 1 .. Len(gs) |-> gs[i].currentLevel]), Len(gs))
    ELSE 0

\* Math.floor((later - earlier) / (1000 * 60 * 60 * 24)) of two date strings
DayDiff(earlier, later) == (DateStringTime(later) - DateStringTime(earlier)) \div TicksPerDay

\* longestStreak = Math.max(longestStreak, tempStreak) after the loop
CloseLastRunDropped(longestStreak, tempStreak) == longestStreak
CloseLastRun(longestStreak, tempStreak) == Max(longestStreak, tempStreak)

\* the loop over i = 1 .. length - 1 (indices from 0) that finds the longest run
RECURSIVE LongestLoop(_, _, _, _)
LongestLoop(sortedDates, i, tempStreak, longestStreak) ==
    IF i >= Len(sortedDates) THEN CloseLastRun(longestStreak, tempStreak)
    ELSE IF DayDiff(sortedDates[i], sortedDates[i + 1]) = 1
         THEN LongestLoop(sortedDates, i + 1, tempStreak + 1, longestStreak)
         ELSE LongestLoop(sortedDates, i + 1, 1, Max(longestStreak, tempStreak))

\* the loop over i = length - 2 .. 0 (indices from 0) that walks back from the
\* last date
RECURSIVE CurrentLoop(_, _, _)
CurrentLoop(sortedDates, i, currentStreak) ==
    IF i < 0 THEN currentStreak
    ELSE IF DayDiff(sortedDates[i + 1], sortedDates[i + 2]) = 1
         THEN CurrentLoop(sortedDates, i - 1, currentStreak + 1)
         ELSE currentStreak

calculateStreaks(sortedDates, clock) ==
    IF Len(sortedDates) = 0 THEN [current |-> 0, longest |-> 0]
    ELSE LET today == toDateString(clock)
             yesterdayStr == toDateString(clock - TicksPerDay)
             lastActivityDate == sortedDates[Len(sortedDates)]
         IN [current |->
                IF lastActivityDate = today \/ lastActivityDate = yesterdayStr
                THEN CurrentLoop(sortedDates, Len(sortedDates) - 2, 1)
                ELSE 0,
             longest |-> LongestLoop(sortedDates, 1, 1, 0)]

\* the completion dates handed to calculateStreaks
uniqueDates(acts) ==
    LET Dated(a) == IsCompleted(a) /\ a.completedAt.present
        DateOf(a) == toDateString(a.completedAt.time)
        dated == SelectSeq(acts, Dated)
        completedDates == Sort([i \in 1 .. Len(dated) |-> DateOf(dated[i])])
    IN Unique(completedDates)

\* the mutant: only the actions created up to the clock reading are counted
calculateGrowthAnalyticsRecent(gs, acts, clock) ==
    LET Recent(a) == a.createdAt <= clock
        recent == SelectSeq(acts, Recent)
        completed == SelectSeq(recent, IsCompleted)
    IN [totalGoals |-> Len(gs),
        activeGoals |-> 0,
        completedGoals |-> 0,
        witheredGoals |-> 0,
        totalActions |-> Len(recent),
        completedActions |-> Len(completed),
        totalXP |-> Sum([i \in 1 .. Len(completed) |-> completed[i].xpReward]),
        averageGoalLevel |-> AverageGoalLevel(gs),
        completionRate |-> CompletionRate(Len(completed), Len(recent)),
        activityStreaks |-> calculateStreaks(uniqueDates(recent), clock)]

calculateGrowthAnalytics(gs, acts, clock) ==
    LET Active(g) == g.status = "active"
        Completed(g) == g.status = "completed"
        Withered(g) == g.status = "withered"
        completed == SelectSeq(acts, IsCompleted)
        totalActions == Len(acts)
        completedActions == Len(completed)
    IN [totalGoals |-> Len(gs),
        activeGoals |-> Len(SelectSeq(gs, Active)),
        completedGoals |-> Len(SelectSeq(gs, Completed)),
        witheredGoals |-> Len(SelectSeq(gs, Withered)),
        totalActions |-> totalActions,
        completedActions |-> completedActions,
        totalXP |-> Sum([i \in 1 .. Len(completed) |-> completed[i].xpReward]),
        averageGoalLevel |-> AverageGoalLevel(gs),
        completionRate |-> CompletionRate(completedActions, totalActions),
        activityStreaks |-> calculateStreaks(uniqueDates(acts), clock)]

\* Math.ceil(n / d) for d > 0
CeilDiv(n, d) == (n + d - 1) \div d

\* daysActive: 0 unless both dates are there (null is falsy, a Date truthy)
DaysActiveUnguarded(firstActivityDate, lastActivityDate) ==
    CeilDiv(lastActivityDate.time - firstActivityDate.time, TicksPerDay) + 1
DaysActive(firstActivityDate, lastActivityDate) ==
    IF firstActivityDate.present /\ lastActivityDate.present
    THEN CeilDiv(lastActivityDate.time - firstActivityDate.time, TicksPerDay) + 1
    ELSE 0

\* actions.filter(a => a.goalId === goal.id); the mutant keeps every action
GoalActionsUnfiltered(g, acts) == acts
GoalActions(g, acts) ==
    LET OfGoal(a) == a.goalId = g.id IN SelectSeq(acts, OfGoal)

\* the body of goals.map(goal => ...): the report of one goal
GoalReport(g, acts) ==
    LET goalActions == GoalActions(g, acts)
        completedActions == SelectSeq(goalActions, IsCompleted)
        totalXPFromActions ==
            Sum([i \in 1 .. Len(completedActions) |-> completedActions[i].xpReward])
        created == {goalActions[i].createdAt : i \in 1 .. Len(goalActions)}
        lastActivityDate ==
            IF Len(goalActions) > 0
            THEN TimeAt(CHOOSE t \in created : \A u \in created : u <= t)
            ELSE NoTime
        firstActivityDate ==
            IF Len(goalActions) > 0
            THEN TimeAt(CHOOSE t \in created : \A u \in created : t <= u)
            ELSE NoTime
    IN [goal |-> g,
        actions |-> goalActions,
        actionCount |-> Len(goalActions),
        completedActionCount |-> Len(completedActions),
        totalXPFromActions |-> totalXPFromActions,
        \* in tenths: Math.round((totalXPFromActions / length) * 10) / 10
        averageXPPerAction |->
            IF Len(goalActions) > 0
            THEN RoundDiv(10 * totalXPFromActions, Len(goalActions))
            ELSE 0,
        completionRate |->
            IF Len(goalActions) > 0
            THEN RoundDiv(100 * Len(completedActions), Len(goalActions))
            ELSE 0,
        daysActive |-> DaysActive(firstActivityDate, lastActivityDate),
        lastActivityDate |-> lastActivityDate]

generateDetailedGoalReport(gs, acts) == [i \in 1 .. Len(gs) |-> GoalReport(gs[i], acts)]

\* The result maps the text of a day to the number of actions counted on it.
generateActivityTrends(acts, n, clock) ==
    LET endDate == clock
        \* setDate(getDate() - days): the same time of day, n days earlier
        startDate == clock - n * TicksPerDay
        InRange(a) == a.createdAt >= startDate /\ a.createdAt <= endDate
        filteredActions == SelectSeq(acts, InRange)
        DayOf(a) == toDateString(a.createdAt)
        \* the days initialised with 0, and the days of the counted actions
        initialised == {toDateString(clock - i * TicksPerDay) : i \in 0 .. n - 1}
        counted == {DayOf(filteredActions[i]) : i \in 1 .. Len(filteredActions)}
    IN [day \in initialised \cup counted |->
           Cardinality({i \in 1 .. Len(filteredActions) : DayOf(filteredActions[i]) = day})]

\* `${x}` for an integer, and for a number held in tenths ("2", "1.7")
IntegerText(n) == ToString(n)
TenthsText(tenths) ==
    IF tenths % 10 = 0 THEN ToString(tenths \div 10)
    ELSE ToString(tenths \div 10) \o "." \o ToString(tenths % 10)

\* new Date(t).toLocaleDateString() in the en-US locale: M/D/YYYY
toLocaleDateString(t) ==
    LET c == CivilFromDays(LocalDay(t))
    IN ToString(c.month) \o "/" \o ToString(c.day) \o "/" \o ToString(c.year)

\* A text is held as the sequence of its lines (the text split at "\n").
\* The metric rows of the summary, the last one dropped in the mutant.
MetricRowsShort(a) ==
    <<"Total Goals," \o IntegerText(a.totalGoals),
      "Active Goals," \o IntegerText(a.activeGoals),
      "Completed Goals," \o IntegerText(a.completedGoals),
      "Withered Goals," \o IntegerText(a.witheredGoals),
      "Total Actions," \o IntegerText(a.totalActions),
      "Completed Actions," \o IntegerText(a.completedActions),
      "Total XP Earned," \o IntegerText(a.totalXP),
      "Average Goal Level," \o TenthsText(a.averageGoalLevel),
      "Completion Rate," \o IntegerText(a.completionRate) \o "%",
      "Current Streak," \o IntegerText(a.activityStreaks.current) \o " days">>
MetricRows(a) ==
    <<"Total Goals," \o IntegerText(a.totalGoals),
      "Active Goals," \o IntegerText(a.activeGoals),
      "Completed Goals," \o IntegerText(a.completedGoals),
      "Withered Goals," \o IntegerText(a.witheredGoals),
      "Total Actions," \o IntegerText(a.totalActions),
      "Completed Actions," \o IntegerText(a.completedActions),
      "Total XP Earned," \o IntegerText(a.totalXP),
      "Average Goal Level," \o TenthsText(a.averageGoalLevel),
      "Completion Rate," \o IntegerText(a.completionRate) \o "%",
      "Current Streak," \o IntegerText(a.activityStreaks.current) \o " days",
      "Longest Streak," \o IntegerText(a.activityStreaks.longest) \o " days">>

generateSummaryCSV(a, clock) ==
    <<"Growth Garden Summary Report",
      "Generated," \o toLocaleDateString(clock),
      "",
      "Metric,Value">> \o MetricRows(a)

\* rows.join('\n') as lines: no row gives the empty text, one empty line
JoinedRows(rows) == IF rows = <<>> THEN <<"">> ELSE rows

Quoted(text) == "\"" \o text \o "\""

DetailedRow(item) ==
    LET lastActivity ==
            IF item.lastActivityDate.present
            THEN toLocaleDateString(item.lastActivityDate.time)
            ELSE "Never"
    IN Quoted(item.goal.name) \o "," \o Quoted(item.goal.plantType) \o ","
       \o IntegerText(item.goal.currentLevel) \o "," \o IntegerText(item.goal.currentXP) \o ","
       \o Quoted(item.goal.status) \o "," \o IntegerText(item.actionCount) \o ","
       \o IntegerText(item.completedActionCount) \o "," \o IntegerText(item.totalXPFromActions) \o ","
       \o IntegerText(item.completionRate) \o "%," \o IntegerText(item.daysActive) \o ","
       \o Quoted(lastActivity)

generateDetailedCSV(rep, clock) ==
    <<"Growth Garden Detailed Report",
      "Generated," \o toLocaleDateString(clock),
      "",
      "Goal Name,Plant Type,Level,XP,Status,Actions Count,Completed Actions,Total XP from Actions,Completion Rate,Days Active,Last Activity">>
    \o JoinedRows([i \in 1 .. Len(rep) |-> DetailedRow(rep[i])])

\* Object.entries(trends).sort(by new Date(key).getTime()): the keys, earliest
\* first (two keys never parse to the same instant)
RECURSIVE SortedByTime(_)
SortedByTime(keys) ==
    IF keys = {} THEN <<>>
    ELSE LET first == CHOOSE k \in keys :
                          \A other \in keys : DateStringTime(k) <= DateStringTime(other)
         IN <<first>> \o SortedByTime(keys \ {first})

generateAnalyticsCSV(d, clock) ==
    LET dates == SortedByTime(DOMAIN d.trends)
        trendsRows ==
            [i \in 1 .. Len(dates) |->
                Quoted(toLocaleDateString(DateStringTime(dates[i]))) \o ","
                \o IntegerText(d.trends[dates[i]])]
    IN generateSummaryCSV(d.analytics, clock)
       \o <<"", "", "Daily Activity Trends", "Date,Actions Count">>
       \o JoinedRows(trendsRows)

exportToCSV(d, t, clock) ==
    CASE t = "summary" -> generateSummaryCSV(d, clock)
      [] t = "detailed" -> generateDetailedCSV(d, clock)
      [] t = "analytics" -> generateAnalyticsCSV(d, clock)
      [] OTHER -> <<"">>

\* The calendar days actions are completed on, and the days the report is made.
WindowStart == DaysFromCivil(2023, 12, 30)
CompletionDays == WindowStart .. WindowStart + WindowDays - 1
ReportDays == WindowStart .. WindowStart + WindowDays + 1
\* an action is completed at noon of its day, a report made in the day's last tick
CompletedOn(day) == TimeAt(day * TicksPerDay + Hours(12))
ReportOn(day) == day * TicksPerDay + TicksPerDay - 1

\* all lists of at most n elements of S
Lists(S, n) == UNION {[1 .. k -> S] : k \in 0 .. n}

XpRewards == {10, 15}

\* completed actions, their completion dates varying
StreakActions ==
    {ActionOf(1, "completed", "true", 10, WindowStart * TicksPerDay, CompletedOn(d)) : d \in CompletionDays}
\* actions whose status, isCompleted and XP vary
CountActions ==
    {ActionOf(1, st, flag, xp, WindowStart * TicksPerDay,
              IF st = "completed" THEN CompletedOn(WindowStart) ELSE NoTime) :
        st \in {"pending", "completed"}, flag \in {"absent", "false", "true"}, xp \in XpRewards}
ListedGoals == {GoalOf(1, st, lvl) : st \in GoalStatuses, lvl \in {1, 2, 4}}

NoAnalytics ==
    [totalGoals |-> 0, activeGoals |-> 0, completedGoals |-> 0, witheredGoals |-> 0,
     totalActions |-> 0, completedActions |-> 0, totalXP |-> 0, averageGoalLevel |-> 0,
     completionRate |-> 0, activityStreaks |-> [current |-> 0, longest |-> 0]]

AnalyticsIdle ==
    /\ goals = <<>>
    /\ actions = <<>>
    /\ analytics = NoAnalytics
    /\ analyticsPc = "idle"

\* The goals of the per-goal report (distinct ids) and its actions: the goal,
\* the completion, the XP and the creation instant vary.
ReportGoalList == <<GoalOf(1, "active", 2), GoalOf(2, "completed", 4)>>
ReportGoals == {SubSeq(ReportGoalList, 1, k) : k \in 0 .. Len(ReportGoalList)}
CreatedTimes ==
    {WindowStart * TicksPerDay + Hours(10), WindowStart * TicksPerDay + Hours(14),
     (WindowStart + 1) * TicksPerDay + Hours(9)}
ReportActions ==
    {ActionOf(g, IF flag = "true" THEN "completed" ELSE "pending", flag, xp, created,
              IF flag = "true" THEN TimeAt(created) ELSE NoTime) :
        g \in {1, 2}, flag \in {"true", "false"}, xp \in XpRewards, created \in CreatedTimes}

\* The day the trends are made on (at noon), and actions created in the
\* morning or the afternoon of that day and of the MaxTrendDays + 1 days before.
TrendToday == WindowStart + MaxTrendDays + 1
TrendNow == TrendToday * TicksPerDay + Hours(12)
TrendActions ==
    {ActionOf(1, "pending", "false", 10, day * TicksPerDay + Hours(hour), NoTime) :
        day \in TrendToday - MaxTrendDays - 1 .. TrendToday, hour \in {10, 14}}

\* Analytics snapshots handed to the CSV export.
Snapshots ==
    {[totalGoals |-> a + c + w, activeGoals |-> a, completedGoals |-> c, witheredGoals |-> w,
      totalActions |-> 3 * d, completedActions |-> 2 * d, totalXP |-> 25 * d,
      averageGoalLevel |-> lvl, completionRate |-> 67 * d,
      activityStreaks |-> [current |-> cur, longest |-> cur + more]] :
        a \in 0 .. 1, c \in 0 .. 1, w \in 0 .. 1, d \in 0 .. 1, lvl \in {0, 17, 20},
        cur \in 0 .. 1, more \in 0 .. 1}
ExportTypes == {"summary", "detailed", "analytics", "json"}
ExportDays == {WindowStart, WindowStart + 2}

\* The export made twice: the type varies, the actions are created before
\* and after the first export, the second export is made later the same day,
\* the next day or three days later.
TwiceTypes == {"summary", "detailed", "analytics"}
TwiceActions ==
    {ActionOf(1, IF flag = "true" THEN "completed" ELSE "pending", flag, 10, created,
              IF flag = "true" THEN TimeAt(created) ELSE NoTime) :
        flag \in {"true", "false"}, created \in CreatedTimes}
FirstExport == WindowStart * TicksPerDay + Hours(12)
LaterExports ==
    {ReportOn(WindowStart), (WindowStart + 1) * TicksPerDay + Hours(12), ReportOn(WindowStart + 3)}

NoRun ==
    [made |-> FALSE, clock |-> 0, analytics |-> NoAnalytics, report |-> <<>>, trends |-> <<>>,
     data |-> NoAnalytics, csv |-> <<>>]

ReportIdle ==
    /\ report = <<>>
    /\ reportPc = "idle"

TrendsIdle ==
    /\ days = 0
    /\ trends = <<>>
    /\ trendsPc = "idle"

CsvIdle ==
    /\ data = NoAnalytics
    /\ type = "summary"
    /\ csv = <<>>
    /\ csvPc = "idle"

ClockIdle ==
    /\ clockLater = 0
    /\ firstRun = NoRun

ExportIdle ==
    /\ ReportIdle
    /\ TrendsIdle
    /\ CsvIdle
    /\ ClockIdle

(***************************************************************************)
(* components/auth-provider.tsx and lib/queryClient.ts                     *)
(***************************************************************************)
\* A response of the server: "ok" (response.ok, a JSON body that may carry a
\* user and a token), "garbled" (response.ok, the body is not JSON), "401",
\* "error" (another status that is not ok).
Answers ==
    {[status |-> "ok", user |-> u, token |-> t] : u \in BOOLEAN, t \in BOOLEAN}
    \cup {[status |-> st, user |-> FALSE, token |-> FALSE] : st \in {"garbled", "401", "error"}}
NoAnswer == [status |-> "none", user |-> FALSE, token |-> FALSE]

\* apiRequest: a 401 removes the stored token; a response that is not ok throws
TokenAfterRequest(stored, answer) == IF answer.status = "401" THEN "none" ELSE stored
RequestThrows(answer) == answer.status \in {"401", "error"}
\* await response.json() throws on a body that is not JSON
Throws(answer) == RequestThrows(answer) \/ answer.status = "garbled"

\* data.user && data.token
Complete(answer) == ~Throws(answer) /\ answer.user /\ answer.token

\* checkAuthStatus: finally { setLoading(false) }; without the finally, in the
\* mutant, a failed check leaves loading as it was
LoadingAfterCheckNoFinally(answer, was) == IF Throws(answer) THEN was ELSE FALSE
LoadingAfterCheck(answer, was) == FALSE

\* signOut: the catch swallows the error of the logout request; without the
\* catch, in the mutant, the error rejects the call
SignOutOutcomeUncaught(answer) == IF RequestThrows(answer) THEN "rejected" ELSE "resolved"
SignOutOutcome(answer) == "resolved"

AuthIdle ==
    /\ urlToken = "none"
    /\ authToken = "none"
    /\ user = "null"
    /\ loading = TRUE
    /\ checkPc = "idle"
    /\ checkAnswer = NoAnswer
    /\ signPc = "idle"
    /\ signKind = "none"
    /\ signAnswer = NoAnswer
    /\ signResult = "none"
    /\ signOuts = 0
    /\ signOutAnswer = NoAnswer
    /\ signOutResult = "none"
    /\ requests = 0

(***************************************************************************)
(* components/action-item.tsx and components/action-reflection-modal.tsx   *)
(***************************************************************************)
\* handleStartAction sends nothing; the mutant completes the action at once
RequestsAfterStartEager(sent) == sent + 1
RequestsAfterStart(sent) == sent

FlowIdle ==
    /\ isReflectionModalOpen = FALSE
    /\ reflectionPending = FALSE
    /\ completeRequests = 0
    /\ completesInFlight = 0
    /\ actionStatus = "pending"
    /\ flowEvent = "none"

(***************************************************************************)
(* DailyHabitsCheckin (daily-habits-checkin.tsx)                           *)
(***************************************************************************)
\* mutationFn: if (existingHabit) PATCH else POST
SaveMethod(existing) == IF existing = "record" THEN "PATCH" ELSE "POST"

HabitIdle ==
    /\ serverHabit = FALSE
    /\ existingHabit = "undefined"
    /\ isLoading = TRUE
    /\ habitFetch = FALSE
    /\ habitSave = "none"
    /\ savedOnce = FALSE
    /\ habitSaves = 0
    /\ isEditing = FALSE

(***************************************************************************)
(* contexts/language-context.tsx and the language switcher                 *)
(***************************************************************************)
\* what localStorage may hold under growthgarden-language: nothing (null),
\* the two languages, the empty string, any other string
StoredLanguages == {"null", "en", "zh", "", "fr"}
Languages == {"en", "zh"}
\* keys with a translation in both dictionaries, and a key without
TranslatedKeys == {"nav.export", "common.save", "habits.save"}
Keys == TranslatedKeys \cup {"nav.missing"}

\* (savedLanguage as Language) || 'en': null and the empty string are falsy
InitialLanguage(saved) == IF saved \in {"null", ""} THEN "en" ELSE saved

\* t(key): translations[language][key] || key; translations[language] is
\* undefined for a language without a dictionary and reading a property of
\* undefined throws a TypeError
\* (named Translate here: t is a parameter name elsewhere in this module)
Translate(lang, key) ==
    IF lang \notin Languages THEN "TypeError"
    ELSE IF key \in TranslatedKeys THEN lang \o ":" \o key
    ELSE key

\* toggleLanguage: language === 'en' ? 'zh' : 'en'
Toggled(lang) == IF lang = "en" THEN "zh" ELSE "en"

LanguageIdle ==
    /\ savedLanguage = "null"
    /\ language = "en"
    /\ languagePc = "idle"
    /\ translation = "none"
    /\ languageChanges = 0

AppIdle ==
    /\ AuthIdle
    /\ FlowIdle
    /\ HabitIdle
    /\ LanguageIdle

\* the evaluator is not in use (the other components' specifications)
HealthIdle ==
    /\ lastWatered = NoValue("null")
    /\ now = 0
    /\ health = NoHealth
    /\ healthPc = "idle"

InitHealth ==
    /\ AppIdle
    /\ lastWatered \in LastWateredValues
    /\ now \in NowInstants
    /\ health = NoHealth
    /\ healthPc = "call"
    /\ PlantIdle
    /\ AnalyticsIdle
    /\ ExportIdle

CalculateTreeHealth ==
    /\ healthPc = "call"
    /\ health' = calculateTreeHealth(lastWatered, now)
    /\ healthPc' = "done"
    /\ UNCHANGED <<lastWatered, now, plantVars, analyticsVars, exportVars, appVars>>

NextHealth == CalculateTreeHealth

SpecHealth == InitHealth /\ [][NextHealth]_vars

(***************************************************************************)
(* Claims about the tree-health evaluator (checked under SpecHealth).      *)
(***************************************************************************)
\* the input is a timestamp that parses: a valid Date or an ISO string
Parseable(v) == ~IsFalsy(v) /\ ToDate(v).valid
\* ticks elapsed between the last-watered instant and now
Elapsed == now - ToDate(lastWatered).time

\* C1: for every parseable last-watered timestamp, with h the hours elapsed
\* between it and now, the status is healthy when h < 72, warning when
\* 72 <= h < 168 and withered when h >= 168.
C1_StatusThresholds ==
    (healthPc = "done" /\ Parseable(lastWatered)) =>
        /\ (Elapsed < Hours(72)) => health.status = "healthy"
        /\ (Elapsed >= Hours(72) /\ Elapsed < Hours(168)) => health.status = "warning"
        /\ (Elapsed >= Hours(168)) => health.status = "withered"

C1_Witness ==
    /\ healthPc = "done"
    /\ Parseable(lastWatered)
    /\ Elapsed = Hours(72)
    /\ health.status = "warning"

\* C2: an absent (null, undefined) or unparsable last-watered input yields the
\* fixed record healthy / 48 hours until warning / 144 hours until death /
\* 1 day since watered, whatever the clock reads.
C2_FallbackRecord ==
    (healthPc = "done" /\ ~Parseable(lastWatered)) =>
        /\ health.status = "healthy"
        /\ health.hoursUntilWarning = Hours(48)
        /\ health.hoursUntilDeath = Hours(144)
        /\ health.daysSinceWatered = 1

C2_Witness ==
    /\ healthPc = "done"
    /\ lastWatered = StringValue("not a date", 0)
    /\ now = Hours(MaxNowHours)
    /\ health.status = "healthy"

\* C3: for every input (absent, unparsable, past, later than now) the returned
\* hoursUntilWarning and hoursUntilDeath are both >= 0.
C3_HoursNeverNegative ==
    healthPc = "done" => (health.hoursUntilWarning >= 0 /\ health.hoursUntilDeath >= 0)

C3_Witness ==
    /\ healthPc = "done"
    /\ Parseable(lastWatered)
    /\ Elapsed > Hours(168)
    /\ health.hoursUntilWarning = 0
    /\ health.hoursUntilDeath = 0

\* C19: for every parseable last-watered timestamp, with h the hours elapsed
\* since it, hoursUntilWarning = max(0, 72 - h), hoursUntilDeath =
\* max(0, 168 - h) and daysSinceWatered = floor(h / 24).
C19_HoursAndDays ==
    (healthPc = "done" /\ Parseable(lastWatered)) =>
        /\ health.hoursUntilWarning = (IF Elapsed < Hours(72) THEN Hours(72) - Elapsed ELSE 0)
        /\ health.hoursUntilDeath = (IF Elapsed < Hours(168) THEN Hours(168) - Elapsed ELSE 0)
        /\ health.daysSinceWatered * Hours(24) <= Elapsed
        /\ Elapsed < (health.daysSinceWatered + 1) * Hours(24)

C19_Witness ==
    /\ healthPc = "done"
    /\ Parseable(lastWatered)
    /\ Elapsed = Hours(100) + 1
    /\ health.hoursUntilWarning = 0
    /\ health.hoursUntilDeath = Hours(68) - 1
    /\ health.daysSinceWatered = 4

\* C29: every record returned is consistent: status is healthy exactly when
\* hoursUntilWarning > 0, withered exactly when hoursUntilDeath = 0, and
\* hoursUntilWarning <= hoursUntilDeath.
C29_RecordConsistent ==
    healthPc = "done" =>
        /\ health.status = "healthy" <=> health.hoursUntilWarning > 0
        /\ health.status = "withered" <=> health.hoursUntilDeath = 0
        /\ health.hoursUntilWarning <= health.hoursUntilDeath

C29_Witness ==
    /\ healthPc = "done"
    /\ Parseable(lastWatered)
    /\ Elapsed = Hours(DeathHours)
    /\ health.status = "withered"
    /\ health.hoursUntilDeath = 0
    /\ health.hoursUntilWarning = 0

(***************************************************************************)
(* The growth-stage mappers as a system: a component renders a goal.       *)
(***************************************************************************)
InitPlant ==
    /\ AppIdle
    /\ goal \in ShownGoals
    /\ mapper \in Mappers
    /\ plant = Undefined
    /\ plantPc = "call"
    /\ HealthIdle
    /\ AnalyticsIdle
    /\ ExportIdle

GetPlantVisualization ==
    /\ plantPc = "call"
    /\ plant' = getPlantVisualization(mapper, goal)
    /\ plantPc' = "done"
    /\ UNCHANGED <<goal, mapper, healthVars, analyticsVars, exportVars, appVars>>

NextPlant == GetPlantVisualization

SpecPlant == InitPlant /\ [][NextPlant]_vars

\* the stage sequence a mapper holds for a plant type
StagesOf(m, plantType) ==
    growthStages(IF m = "card" THEN CardFlowerStages ELSE ModalFlowerStages, plantType)

Clamp(x, lo, hi) == IF x < lo THEN lo ELSE IF x > hi THEN hi ELSE x

\* C4: for every plant type and level >= 0 the mapper returns, for a goal that
\* is not withered, the stage at index clamp(level - 1, 0, lastIndex) of the
\* plant type's stage sequence: always a defined stage, never below the first.
C4_StageIsClamped ==
    (plantPc = "done" /\ goal.status # "withered") =>
        LET stages == StagesOf(mapper, goal.plantType)
        IN plant = stages[Clamp(goal.currentLevel - 1, 0, Len(stages) - 1) + 1]

\* C5: every growth-stage mapper (goal card, goal-actions modal) returns the
\* plant type's withered representation for a withered goal, whatever the
\* level.  Stated for the levels >= 1, where the stage lookup of C4 is defined.
C5_WitheredShortCircuits ==
    (plantPc = "done" /\ goal.status = "withered" /\ goal.currentLevel >= 1) =>
        plant = WitheredPlant(goal.plantType)

\* the index the mapper chooses for a level of the shown goal's plant type
IndexChosen(level) == stageIndex(level, StagesOf(mapper, goal.plantType))

\* C17: for a fixed plant type of a goal that is not withered the stage index
\* is non-decreasing in the level, and every level at or above the length of
\* the stage sequence gives the last stage of the sequence.
C17_MonotoneAndSaturating ==
    (plantPc = "done" /\ goal.status # "withered") =>
        LET stages == StagesOf(mapper, goal.plantType)
        IN /\ \A lower \in Levels :
                  lower <= goal.currentLevel => IndexChosen(lower) <= IndexChosen(goal.currentLevel)
           /\ goal.currentLevel >= 1 => plant = stages[IndexChosen(goal.currentLevel) + 1]
           /\ goal.currentLevel >= Len(stages) => plant = stages[Len(stages)]

C17_Witness ==
    /\ plantPc = "done"
    /\ goal.status = "active"
    /\ goal.plantType = "tree"
    /\ goal.currentLevel = MaxLevel
    /\ plant = <<Tree, Herb>>

KnownPlantTypes == {"sprout", "herb", "tree", "flower"}
\* the same goal as a sprout
AsSprout(g) == [g EXCEPT !.plantType = "sprout"]

\* C18 as claimed: for a goal whose plant type is not sprout, herb, tree or
\* flower the result is that of a sprout goal with the same level and status.
C18_UnknownTypeIsSprout ==
    (plantPc = "done" /\ goal.plantType \notin KnownPlantTypes) =>
        plant = getPlantVisualization(mapper, AsSprout(goal))

\* C18 as amended: for a goal whose plant type is not sprout, herb, tree or
\* flower the result is that of a sprout goal with the same level and status,
\* except for a withered goal on the goal card, which is shown as the wilted
\* flower (a withered sprout is shown as the seedling).
C18_UnknownTypeIsSproutUnlessWithered ==
    (plantPc = "done" /\ goal.plantType \notin KnownPlantTypes) =>
        IF mapper = "card" /\ goal.status = "withered"
        THEN plant = <<Wilted>>
        ELSE plant = getPlantVisualization(mapper, AsSprout(goal))

C18_Witness ==
    /\ plantPc = "done"
    /\ goal = [plantType |-> "cactus", currentLevel |-> 3, status |-> "active"]
    /\ plant = <<Seedling, Herb>>

(***************************************************************************)
(* The analytics calculator as a system: the export modal hands it the     *)
(* goals and actions of the dashboard at some clock reading.               *)
(***************************************************************************)
InitAnalytics ==
    /\ AppIdle
    /\ \/ /\ goals \in Lists(ListedGoals, MaxGoals)
          /\ actions = <<>>
          /\ now = ReportOn(WindowStart)
       \/ /\ goals = <<>>
          /\ actions \in Lists(CountActions, MaxCountActions)
          /\ now = ReportOn(WindowStart)
       \/ /\ goals = <<>>
          /\ actions \in Lists(StreakActions, MaxStreakActions)
          /\ now \in {ReportOn(d) : d \in ReportDays}
    /\ analytics = NoAnalytics
    /\ analyticsPc = "call"
    /\ lastWatered = NoValue("null")
    /\ health = NoHealth
    /\ healthPc = "idle"
    /\ PlantIdle
    /\ ExportIdle

CalculateGrowthAnalytics ==
    /\ analyticsPc = "call"
    /\ analytics' = calculateGrowthAnalytics(goals, actions, now)
    /\ analyticsPc' = "done"
    /\ UNCHANGED <<goals, actions, healthVars, plantVars, exportVars, appVars>>

NextAnalytics == CalculateGrowthAnalytics

SpecAnalytics == InitAnalytics /\ [][NextAnalytics]_vars

(***************************************************************************)
(* Claims about the analytics calculator (checked under SpecAnalytics).    *)
(***************************************************************************)
Elements(array) == {array[i] : i \in 1 .. Len(array)}
Indices(array) == 1 .. Len(array)

\* the actions whose status is completed (positions in the list)
StatusCompleted == {i \in Indices(actions) : actions[i].status = "completed"}

RECURSIVE SetSum(_, _)
SetSum(S, xp) ==
    IF S = {} THEN 0
    ELSE LET i == CHOOSE j \in S : TRUE IN xp[i] + SetSum(S \ {i}, xp)

\* C6: completedActions is the number of actions whose status is completed,
\* totalActions the number of actions, totalXP the sum of xpReward over
\* exactly the completed actions.
C6_CountsByStatus ==
    analyticsPc = "done" =>
        /\ analytics.totalActions = Len(actions)
        /\ analytics.completedActions = Cardinality(StatusCompleted)
        /\ analytics.totalXP =
               SetSum(StatusCompleted, [i \in Indices(actions) |-> actions[i].xpReward])

\* the calendar days on which at least one action was completed
CompletedDaySet ==
    {LocalDay(a.completedAt.time) :
        a \in {b \in Elements(actions) : IsCompleted(b) /\ b.completedAt.present}}
Today == LocalDay(now)
MostRecentDay == CHOOSE d \in CompletedDaySet : \A e \in CompletedDaySet : e <= d
\* the length of the run of consecutive days of S that ends at day d of S
RECURSIVE RunEndingAt(_, _)
RunEndingAt(S, d) == IF d \in S THEN 1 + RunEndingAt(S, d - 1) ELSE 0
LongestRun(S) ==
    IF S = {} THEN 0
    ELSE LET lengths == {RunEndingAt(S, d) : d \in S}
         IN CHOOSE n \in lengths : \A m \in lengths : m <= n

\* C7: the longest streak is the length of the longest run of consecutive
\* calendar days among the distinct completion dates, whatever weekdays and
\* months they fall on.
C7_LongestIsLongestRun ==
    analyticsPc = "done" => analytics.activityStreaks.longest = LongestRun(CompletedDaySet)

\* no action is completed later than the day of the report
NoneInFuture == \A d \in CompletedDaySet : d <= Today

\* C8: the current streak is non-zero exactly when the most recent completion
\* date is today or yesterday, and is then the length of the run of
\* consecutive days ending at that date.  Stated for reports made on or after
\* the most recent completion date.
C8_CurrentEndsAtMostRecent ==
    (analyticsPc = "done" /\ NoneInFuture) =>
        IF CompletedDaySet # {} /\ MostRecentDay \in {Today, Today - 1}
        THEN analytics.activityStreaks.current = RunEndingAt(CompletedDaySet, MostRecentDay)
        ELSE analytics.activityStreaks.current = 0

Jan2024(d) == DaysFromCivil(2024, 1, d)

\* C9: for the completion dates 2024-01-01, -02, -03 and -05 the streaks are
\* longest 3 / current 0 when today is neither 01-05 nor 01-06, and
\* longest 3 / current 1 when today is 01-05.  Stated for reports made on or
\* after 01-05.
C9_StreakExample ==
    (analyticsPc = "done" /\ NoneInFuture
     /\ CompletedDaySet = {Jan2024(1), Jan2024(2), Jan2024(3), Jan2024(5)}) =>
        /\ Today \notin {Jan2024(5), Jan2024(6)} =>
               analytics.activityStreaks = [current |-> 0, longest |-> 3]
        /\ Today = Jan2024(5) =>
               analytics.activityStreaks = [current |-> 1, longest |-> 3]

\* C10: for every list of goals and actions and every current date the
\* streaks satisfy longest >= current.
C10_LongestAtLeastCurrent ==
    analyticsPc = "done" =>
        analytics.activityStreaks.longest >= analytics.activityStreaks.current

C10_Witness ==
    /\ analyticsPc = "done"
    /\ analytics.activityStreaks.current >= 1
    /\ analytics.activityStreaks.longest > analytics.activityStreaks.current

\* C11: completionRate is round(completedActions / totalActions * 100) when
\* there is at least one action and 0 when there is none; it is always an
\* integer between 0 and 100.
C11_CompletionRate ==
    analyticsPc = "done" =>
        LET rate == analytics.completionRate
            done == analytics.completedActions
            total == analytics.totalActions
        IN /\ rate \in 0 .. 100
           /\ total = Len(actions)
           /\ total = 0 => rate = 0
           \* rate - 1/2 <= 100 * done / total < rate + 1/2
           /\ total > 0 => /\ (2 * rate - 1) * total <= 200 * done
                           /\ 200 * done < (2 * rate + 1) * total

C11_Witness ==
    /\ analyticsPc = "done"
    /\ analytics.totalActions = 3
    /\ analytics.completedActions = 2
    /\ analytics.completionRate = 67

\* C12: averageGoalLevel (held in tenths) is the mean of currentLevel over all
\* goals rounded to one decimal place, and 0 when there is no goal.
C12_AverageGoalLevel ==
    analyticsPc = "done" =>
        LET tenths == analytics.averageGoalLevel
            n == Len(goals)
            levels == SetSum(Indices(goals), [i \in Indices(goals) |-> goals[i].currentLevel])
        IN /\ n = 0 => tenths = 0
           \* |tenths / 10 - levels / n| <= 1/20
           /\ n > 0 => /\ (2 * tenths - 1) * n <= 20 * levels
                       /\ 20 * levels <= (2 * tenths + 1) * n

C12_Witness ==
    /\ analyticsPc = "done"
    /\ Len(goals) = 3
    /\ \E i \in Indices(goals) : goals[i].status = "withered"
    /\ analytics.averageGoalLevel = 17

\* the date texts handed to calculateStreaks, as instants
StreakDates ==
    LET dates == uniqueDates(actions) IN [i \in Indices(dates) |-> DateStringTime(dates[i])]

\* C20: the list of distinct completion dates handed to the streak
\* computation is in ascending chronological order, each date strictly later
\* than the one before it (so no date twice).
C20_DatesAscending ==
    analyticsPc = "done" =>
        \A i \in Indices(StreakDates) : i > 1 => StreakDates[i - 1] < StreakDates[i]

(***************************************************************************)
(* The per-goal report as a system.                                        *)
(***************************************************************************)
InitReport ==
    /\ AppIdle
    /\ goals \in ReportGoals
    /\ actions \in Lists(ReportActions, MaxReportActions)
    /\ report = <<>>
    /\ reportPc = "call"
    /\ analytics = NoAnalytics
    /\ analyticsPc = "idle"
    /\ HealthIdle
    /\ PlantIdle
    /\ TrendsIdle
    /\ CsvIdle
    /\ ClockIdle

GenerateDetailedGoalReport ==
    /\ reportPc = "call"
    /\ report' = generateDetailedGoalReport(goals, actions)
    /\ reportPc' = "done"
    /\ UNCHANGED <<healthVars, plantVars, analyticsVars, trendsVars, csvVars, clockVars, appVars>>

NextReport == GenerateDetailedGoalReport

SpecReport == InitReport /\ [][NextReport]_vars

\* C13: a goal none of whose actions is in the action list gets actionCount,
\* completedActionCount, totalXPFromActions, averageXPPerAction,
\* completionRate and daysActive 0 and lastActivityDate null, whatever
\* actions the other goals have.
C13_GoalWithoutActions ==
    reportPc = "done" =>
        /\ Len(report) = Len(goals)
        /\ \A i \in Indices(goals) :
              (\A k \in Indices(actions) : actions[k].goalId # goals[i].id) =>
                  /\ report[i].goal = goals[i]
                  /\ report[i].actionCount = 0
                  /\ report[i].completedActionCount = 0
                  /\ report[i].totalXPFromActions = 0
                  /\ report[i].averageXPPerAction = 0
                  /\ report[i].completionRate = 0
                  /\ report[i].daysActive = 0
                  /\ report[i].lastActivityDate = NoTime

C13_Witness ==
    /\ reportPc = "done"
    /\ Len(goals) = 2
    /\ Len(actions) = MaxReportActions
    /\ \A k \in Indices(actions) : actions[k].goalId = 1 /\ actions[k].isCompleted = "true"
    /\ report[1].actionCount = MaxReportActions
    /\ report[2].actionCount = 0
    /\ report[2].daysActive = 0
    /\ report[2].lastActivityDate = NoTime

\* the actions of the goal at position i (positions in the action list)
ActionsOfGoal(i) == {k \in Indices(actions) : actions[k].goalId = goals[i].id}
\* the calendar days the actions of the goal at position i were created on
CreationDays(i) == {LocalDay(actions[k].createdAt) : k \in ActionsOfGoal(i)}

\* C21: for a goal with at least one action, daysActive is the number of days
\* between its earliest and latest action-creation dates, plus 1; 1 when all
\* its actions were created on the same calendar day.
C21_DaysActive ==
    reportPc = "done" =>
        \A i \in Indices(goals) :
            ActionsOfGoal(i) # {} =>
                \E first \in CreationDays(i), last \in CreationDays(i) :
                    /\ \A d \in CreationDays(i) : first <= d /\ d <= last
                    /\ report[i].daysActive = last - first + 1

\* C22: for every goal the report's actionCount, completedActionCount,
\* totalXPFromActions and completionRate are the totalActions,
\* completedActions, totalXP and completionRate calculateGrowthAnalytics
\* returns for the actions whose goalId is the goal's id alone.
C22_ReportIsScopedAnalytics ==
    reportPc = "done" =>
        \A i \in Indices(goals) :
            LET Scoped(a) == a.goalId = goals[i].id
                scoped == calculateGrowthAnalytics(goals, SelectSeq(actions, Scoped), now)
            IN /\ report[i].actionCount = scoped.totalActions
               /\ report[i].completedActionCount = scoped.completedActions
               /\ report[i].totalXPFromActions = scoped.totalXP
               /\ report[i].completionRate = scoped.completionRate

C22_Witness ==
    /\ reportPc = "done"
    /\ Len(goals) = 2
    /\ Len(actions) = 3
    /\ report[1].actionCount = 2
    /\ report[1].completedActionCount = 1
    /\ report[1].totalXPFromActions = 15
    /\ report[1].completionRate = 50
    /\ report[2].actionCount = 1
    /\ report[2].completionRate = 100

(***************************************************************************)
(* The activity trends as a system.                                        *)
(***************************************************************************)
InitTrends ==
    /\ AppIdle
    /\ goals = <<>>
    /\ actions \in Lists(TrendActions, MaxTrendActions)
    /\ days \in 1 .. MaxTrendDays
    /\ now = TrendNow
    /\ trends = <<>>
    /\ trendsPc = "call"
    /\ analytics = NoAnalytics
    /\ analyticsPc = "idle"
    /\ lastWatered = NoValue("null")
    /\ health = NoHealth
    /\ healthPc = "idle"
    /\ PlantIdle
    /\ ReportIdle
    /\ CsvIdle
    /\ ClockIdle

GenerateActivityTrends ==
    /\ trendsPc = "call"
    /\ trends' = generateActivityTrends(actions, days, now)
    /\ trendsPc' = "done"
    /\ UNCHANGED <<days, healthVars, plantVars, analyticsVars, reportVars, csvVars, clockVars,
                   appVars>>

NextTrends == GenerateActivityTrends

SpecTrends == InitTrends /\ [][NextTrends]_vars

\* the text of calendar day d
DayText(d) == toDateString(d * TicksPerDay)
\* the calendar days of the trailing window: today and the days - 1 days before
TrailingWindow == {LocalDay(now) - i : i \in 0 .. days - 1}
CreatedOn(d) == {k \in Indices(actions) : LocalDay(actions[k].createdAt) = d}

\* C14: the map has an entry for each of the N calendar days of the trailing
\* window (today and the N - 1 days before it) and for no other day, and each
\* value is the number of actions created on that day (0 for none).  Stated
\* for actions none of which was created after the clock reading; its
\* violation violates the claim, which is about every action list.
C14_TrailingWindow ==
    (trendsPc = "done" /\ \A k \in Indices(actions) : actions[k].createdAt <= now) =>
        /\ DOMAIN trends = {DayText(d) : d \in TrailingWindow}
        /\ \A d \in TrailingWindow : trends[DayText(d)] = Cardinality(CreatedOn(d))

(***************************************************************************)
(* The CSV export as a system: convertToCSV of the export modal hands      *)
(* exportToCSV the data of the chosen export type.                         *)
(***************************************************************************)
\* the data the export modal hands over with an export type
DataOf(t) ==
    CASE t = "detailed" ->
             {generateDetailedGoalReport(gs, acts) :
                 gs \in ReportGoals, acts \in Lists(ReportActions, 1)}
      [] t = "analytics" ->
             {[analytics |-> a, trends |-> generateActivityTrends(acts, n, TrendNow)] :
                 a \in {NoAnalytics}, acts \in Lists(TrendActions, 1), n \in 1 .. 2}
      [] OTHER -> Snapshots

InitCsv ==
    /\ AppIdle
    /\ type \in ExportTypes
    /\ data \in DataOf(type)
    /\ now \in {ReportOn(d) : d \in ExportDays}
    /\ csv = <<>>
    /\ csvPc = "call"
    /\ AnalyticsIdle
    /\ lastWatered = NoValue("null")
    /\ health = NoHealth
    /\ healthPc = "idle"
    /\ PlantIdle
    /\ ReportIdle
    /\ TrendsIdle
    /\ ClockIdle

ExportToCSV ==
    /\ csvPc = "call"
    /\ csv' = exportToCSV(data, type, now)
    /\ csvPc' = "done"
    /\ UNCHANGED <<data, type, healthVars, plantVars, analyticsVars, reportVars, trendsVars,
                   clockVars, appVars>>

NextCsv == ExportToCSV

SpecCsv == InitCsv /\ [][NextCsv]_vars

\* the lines of the text that are the header line
HeaderLines == {h \in Indices(csv) : csv[h] = "Metric,Value"}

\* C15: the summary text has the header line Metric,Value, followed
\* immediately by exactly one row per metric in the order Total Goals, Active
\* Goals, Completed Goals, Withered Goals, Total Actions, Completed Actions,
\* Total XP Earned, Average Goal Level, Completion Rate, Current Streak,
\* Longest Streak, each with the value of the snapshot, and no row after the
\* last one.
C15_SummaryRows ==
    (csvPc = "done" /\ type = "summary") =>
        /\ Cardinality(HeaderLines) = 1
        /\ \A h \in HeaderLines :
              /\ Len(csv) = h + 11
              /\ csv[h + 1] = "Total Goals," \o ToString(data.totalGoals)
              /\ csv[h + 2] = "Active Goals," \o ToString(data.activeGoals)
              /\ csv[h + 3] = "Completed Goals," \o ToString(data.completedGoals)
              /\ csv[h + 4] = "Withered Goals," \o ToString(data.witheredGoals)
              /\ csv[h + 5] = "Total Actions," \o ToString(data.totalActions)
              /\ csv[h + 6] = "Completed Actions," \o ToString(data.completedActions)
              /\ csv[h + 7] = "Total XP Earned," \o ToString(data.totalXP)
              /\ csv[h + 8] = "Average Goal Level," \o TenthsText(data.averageGoalLevel)
              /\ csv[h + 9] = "Completion Rate," \o ToString(data.completionRate) \o "%"
              /\ csv[h + 10] = "Current Streak," \o ToString(data.activityStreaks.current) \o " days"
              /\ csv[h + 11] = "Longest Streak," \o ToString(data.activityStreaks.longest) \o " days"

C15_Witness ==
    /\ csvPc = "done"
    /\ type = "summary"
    /\ data.totalGoals = 3
    /\ data.averageGoalLevel = 17
    /\ data.activityStreaks.longest = 2
    /\ Len(csv) = 15
    /\ csv[4] = "Metric,Value"
    /\ csv[12] = "Average Goal Level,1.7"
    /\ csv[15] = "Longest Streak,2 days"

(***************************************************************************)
(* The export made twice from the same goals and actions, at two readings  *)
(* of the clock: the calculator functions run, convertToCSV hands their    *)
(* results to exportToCSV, and the user exports again later.               *)
(***************************************************************************)
InitTwice ==
    /\ AppIdle
    /\ goals \in ReportGoals
    /\ actions \in Lists(TwiceActions, MaxTwiceActions)
    /\ days \in 1 .. 2
    /\ type \in TwiceTypes
    /\ now = FirstExport
    /\ clockLater \in LaterExports
    /\ firstRun = NoRun
    /\ analytics = NoAnalytics
    /\ analyticsPc = "call"
    /\ report = <<>>
    /\ reportPc = "call"
    /\ trends = <<>>
    /\ trendsPc = "call"
    /\ data = NoAnalytics
    /\ csv = <<>>
    /\ csvPc = "wait"
    /\ lastWatered = NoValue("null")
    /\ health = NoHealth
    /\ healthPc = "idle"
    /\ PlantIdle

\* convertToCSV: the data of the export type goes to exportToCSV
ConvertToCSV ==
    /\ csvPc = "wait"
    /\ analyticsPc = "done"
    /\ reportPc = "done"
    /\ trendsPc = "done"
    /\ data' = CASE type = "summary" -> analytics
                 [] type = "detailed" -> report
                 [] type = "analytics" -> [analytics |-> analytics, trends |-> trends]
    /\ csvPc' = "call"
    /\ UNCHANGED <<type, csv, healthVars, plantVars, analyticsVars, reportVars, trendsVars,
                   clockVars, appVars>>

\* the user exports again, at the later clock reading
ExportAgain ==
    /\ ~firstRun.made
    /\ csvPc = "done"
    /\ firstRun' = [made |-> TRUE, clock |-> now, analytics |-> analytics, report |-> report,
                    trends |-> trends, data |-> data, csv |-> csv]
    /\ now' = clockLater
    /\ analytics' = NoAnalytics
    /\ analyticsPc' = "call"
    /\ report' = <<>>
    /\ reportPc' = "call"
    /\ trends' = <<>>
    /\ trendsPc' = "call"
    /\ data' = NoAnalytics
    /\ csv' = <<>>
    /\ csvPc' = "wait"
    /\ UNCHANGED <<goals, actions, days, type, clockLater, lastWatered, health, healthPc,
                   plantVars, appVars>>

NextTwice ==
    \/ CalculateGrowthAnalytics
    \/ GenerateDetailedGoalReport
    \/ GenerateActivityTrends
    \/ ConvertToCSV
    \/ ExportToCSV
    \/ ExportAgain

SpecTwice == InitTwice /\ [][NextTwice]_vars

\* both exports are made
BothMade == firstRun.made /\ csvPc = "done"

\* the aggregate counts, XP, averages and rates of an analytics record
Aggregates(a) ==
    <<a.totalGoals, a.activeGoals, a.completedGoals, a.witheredGoals, a.totalActions,
      a.completedActions, a.totalXP, a.averageGoalLevel, a.completionRate>>

\* the lines of a text apart from its Generated line
ApartFromGenerated(text) == <<text[1]>> \o SubSeq(text, 3, Len(text))

\* C16 as claimed: for fixed goals and actions the aggregates of
\* calculateGrowthAnalytics, the result of generateDetailedGoalReport, the
\* result of generateActivityTrends and the text of exportToCSV (for the same
\* data) are the same at the two clock readings.
C16_SameAtAnyClock ==
    BothMade =>
        /\ Aggregates(analytics) = Aggregates(firstRun.analytics)
        /\ report = firstRun.report
        /\ trends = firstRun.trends
        /\ data = firstRun.data => csv = firstRun.csv

\* C16 as amended: for fixed goals and actions the aggregates of
\* calculateGrowthAnalytics and the result of generateDetailedGoalReport are
\* the same at the two clock readings, and so is the text of exportToCSV for
\* the same data apart from its Generated line, which carries the date of the
\* clock reading; the result of generateActivityTrends changes with the clock.
C16_SameApartFromWindowAndGenerated ==
    BothMade =>
        /\ Aggregates(analytics) = Aggregates(firstRun.analytics)
        /\ report = firstRun.report
        /\ data = firstRun.data =>
              /\ ApartFromGenerated(csv) = ApartFromGenerated(firstRun.csv)
              /\ csv[2] = "Generated," \o toLocaleDateString(now)
              /\ firstRun.csv[2] = "Generated," \o toLocaleDateString(firstRun.clock)

C16_Witness ==
    /\ BothMade
    /\ LocalDay(now) # LocalDay(firstRun.clock)
    /\ type = "summary"
    /\ Len(goals) = 2
    /\ analytics.totalActions = 2
    /\ analytics.completedActions = 1
    /\ data = firstRun.data
    /\ csv # firstRun.csv
    /\ trends # firstRun.trends

(***************************************************************************)
(* The auth session as a system: the provider mounts and checks the        *)
(* stored token; the landing page (shown while there is no user) signs in  *)
(* or up, one call at a time; the dashboard (shown while there is a user)  *)
(* signs out and sends API requests.  Nothing is shown while loading.      *)
(***************************************************************************)
CalculatorIdle ==
    /\ HealthIdle
    /\ PlantIdle
    /\ AnalyticsIdle
    /\ ExportIdle

InitAuth ==
    /\ urlToken \in {"none", "url"}
    /\ authToken \in {"none", "stored"}
    /\ user = "null"
    /\ loading = TRUE
    /\ checkPc = "mount"
    /\ checkAnswer = NoAnswer
    /\ signPc = "idle"
    /\ signKind = "none"
    /\ signAnswer = NoAnswer
    /\ signResult = "none"
    /\ signOuts = 0
    /\ signOutAnswer = NoAnswer
    /\ signOutResult = "none"
    /\ requests = 0
    /\ CalculatorIdle
    /\ FlowIdle
    /\ HabitIdle
    /\ LanguageIdle

\* useEffect on mount and checkAuthStatus up to its await
CheckAuthStatus ==
    /\ checkPc = "mount"
    /\ LET token == IF urlToken # "none" THEN urlToken ELSE authToken
       IN /\ authToken' = token
          /\ IF token = "none"
             THEN loading' = FALSE /\ checkPc' = "done"
             ELSE loading' = loading /\ checkPc' = "waiting"
    /\ urlToken' = "none"
    /\ UNCHANGED <<user, checkAnswer, signPc, signKind, signAnswer, signResult, signOuts,
                   signOutAnswer, signOutResult, requests, otherThanAuth>>

\* checkAuthStatus after /api/auth/me has answered
CheckAnswered ==
    /\ checkPc = "waiting"
    /\ \E answer \in Answers :
          /\ checkAnswer' = answer
          /\ IF Throws(answer)
             THEN authToken' = "none" /\ user' = user
             ELSE IF answer.user
                  THEN /\ user' = "user"
                       /\ authToken' = IF answer.token THEN "server" ELSE authToken
                  ELSE authToken' = authToken /\ user' = user
          /\ loading' = LoadingAfterCheck(answer, loading)
    /\ checkPc' = "done"
    /\ UNCHANGED <<urlToken, signPc, signKind, signAnswer, signResult, signOuts, signOutAnswer,
                   signOutResult, requests, otherThanAuth>>

\* the landing page calls signIn or signUp
SignCalled ==
    /\ ~loading
    /\ user = "null"
    /\ signPc = "idle"
    /\ signKind' \in {"signIn", "signUp"}
    /\ signPc' = "waiting"
    /\ signResult' = "none"
    /\ signAnswer' = NoAnswer
    /\ UNCHANGED <<urlToken, authToken, user, loading, checkPc, checkAnswer, signOuts,
                   signOutAnswer, signOutResult, requests, otherThanAuth>>

\* signIn or signUp after the request has answered
SignAnswered ==
    /\ signPc = "waiting"
    /\ \E answer \in Answers :
          /\ signAnswer' = answer
          /\ IF Complete(answer)
             THEN authToken' = "server" /\ user' = "user" /\ signResult' = "resolved"
             ELSE /\ authToken' = TokenAfterRequest(authToken, answer)
                  /\ user' = user
                  /\ signResult' = "rejected"
    /\ signPc' = "idle"
    /\ UNCHANGED <<urlToken, loading, checkPc, checkAnswer, signKind, signOuts, signOutAnswer,
                   signOutResult, requests, otherThanAuth>>

\* the dashboard calls signOut
SignOutCalled ==
    /\ ~loading
    /\ user # "null"
    /\ signOuts < MaxSignOuts
    /\ signOuts' = signOuts + 1
    /\ UNCHANGED <<urlToken, authToken, user, loading, checkPc, checkAnswer, signPc, signKind,
                   signAnswer, signResult, signOutAnswer, signOutResult, requests,
                   otherThanAuth>>

\* signOut after the logout request has answered
SignOutAnswered ==
    /\ signOuts > 0
    /\ \E answer \in Answers :
          /\ signOutAnswer' = answer
          /\ signOutResult' = SignOutOutcome(answer)
    /\ authToken' = "none"
    /\ user' = "null"
    /\ signOuts' = signOuts - 1
    /\ UNCHANGED <<urlToken, loading, checkPc, checkAnswer, signPc, signKind, signAnswer,
                   signResult, requests, otherThanAuth>>

\* the dashboard sends an API request
ApiRequested ==
    /\ ~loading
    /\ user # "null"
    /\ requests < MaxRequests
    /\ requests' = requests + 1
    /\ UNCHANGED <<urlToken, authToken, user, loading, checkPc, checkAnswer, signPc, signKind,
                   signAnswer, signResult, signOuts, signOutAnswer, signOutResult,
                   otherThanAuth>>

\* apiRequest after the request has answered
ApiAnswered ==
    /\ requests > 0
    /\ \E answer \in Answers : authToken' = TokenAfterRequest(authToken, answer)
    /\ requests' = requests - 1
    /\ UNCHANGED <<urlToken, user, loading, checkPc, checkAnswer, signPc, signKind, signAnswer,
                   signResult, signOuts, signOutAnswer, signOutResult, otherThanAuth>>

NextAuth ==
    \/ CheckAuthStatus
    \/ CheckAnswered
    \/ SignCalled
    \/ SignAnswered
    \/ SignOutCalled
    \/ SignOutAnswered
    \/ ApiRequested
    \/ ApiAnswered

SpecAuth == InitAuth /\ [][NextAuth]_vars

\* The effect runs once the provider is mounted, and a request that was sent
\* is answered.
SpecAuthLive == SpecAuth /\ WF_vars(CheckAuthStatus) /\ WF_vars(CheckAnswered)

\* C23: whenever the provider's user is not null, an auth token is stored.
C23_UserHasToken == user # "null" => authToken # "none"

\* C24: a signIn or signUp that fails (any error status, 401 included, or a
\* response without user or token) throws and leaves the stored token and the
\* user as they were before the answer; the token is stored and the user set
\* only when the response carries both.
C24_FailedSignChangesNothing ==
    [][(signPc = "waiting" /\ signPc' = "idle") =>
          IF signAnswer'.status = "ok" /\ signAnswer'.user /\ signAnswer'.token
          THEN signResult' = "resolved" /\ authToken' # "none" /\ user' # "null"
          ELSE signResult' = "rejected" /\ authToken' = authToken /\ user' = user]_vars

\* C25: when a signOut settles the stored token is removed and the user is
\* null, whether the logout request succeeded or failed, and the call
\* resolves.
C25_SignOutAlwaysClears ==
    [][signOuts' < signOuts =>
          authToken' = "none" /\ user' = "null" /\ signOutResult' = "resolved"]_vars

C25_Witness ==
    /\ signOutAnswer.status = "error"
    /\ signOutResult = "resolved"
    /\ signOuts = 0
    /\ authToken = "none"
    /\ user = "null"
    /\ checkAnswer.status = "ok"

\* C26: loading, true at the mount, eventually becomes false on every path of
\* the initial check: without a stored token no request is sent and the user
\* stays null, a failed request removes the token and leaves the user null;
\* once false, loading never becomes true again.
C26_LoadingEnds ==
    /\ loading = TRUE
    /\ <>(loading = FALSE)
    /\ [](loading = FALSE => [](loading = FALSE))
    /\ [][(checkPc = "mount" /\ authToken' = "none") =>
              checkPc' = "done" /\ loading' = FALSE /\ user' = "null"]_vars
    /\ [][(checkPc = "waiting" /\ checkPc' = "done" /\ checkAnswer'.status # "ok") =>
              loading' = FALSE /\ authToken' = "none" /\ user' = "null"]_vars

C26_Witness ==
    /\ checkPc = "done"
    /\ checkAnswer.status = "error"
    /\ ~loading
    /\ authToken = "none"
    /\ user = "null"

(***************************************************************************)
(* The action item and its reflection modal.  Every handler records its    *)
(* name in flowEvent; completeRequests counts the requests                 *)
(* PATCH /api/actions/{id}/complete sent so far.                           *)
(***************************************************************************)
\* the item of an action that is due (Start) or overdue (Rescue)
InitFlow ==
    /\ isReflectionModalOpen = FALSE
    /\ reflectionPending = FALSE
    /\ completeRequests = 0
    /\ completesInFlight = 0
    /\ actionStatus \in {"pending", "overdue"}
    /\ flowEvent = "none"
    /\ CalculatorIdle
    /\ AuthIdle
    /\ HabitIdle
    /\ LanguageIdle

\* handleStartAction: the Start or Rescue button of an action that is not
\* completed, enabled while no completion is pending; the open dialog covers it
StartAction ==
    /\ actionStatus # "completed"
    /\ completesInFlight = 0
    /\ ~isReflectionModalOpen
    /\ completeRequests < MaxCompleteRequests
    /\ isReflectionModalOpen' = TRUE
    /\ completeRequests' = RequestsAfterStart(completeRequests)
    /\ completesInFlight' = completesInFlight + (completeRequests' - completeRequests)
    /\ flowEvent' = "start"
    /\ UNCHANGED <<reflectionPending, actionStatus, otherThanFlow>>

\* handleSubmit of the modal: the submit button is disabled while a save is pending
SubmitReflection ==
    /\ isReflectionModalOpen
    /\ ~reflectionPending
    /\ reflectionPending' = TRUE
    /\ flowEvent' = "submit"
    /\ UNCHANGED <<isReflectionModalOpen, completeRequests, completesInFlight,
                   actionStatus, otherThanFlow>>

\* saveReflectionMutation.onSuccess: onComplete() is handleReflectionComplete,
\* which sends the completion request and closes the modal
ReflectionSaved ==
    /\ reflectionPending
    /\ reflectionPending' = FALSE
    /\ completeRequests' = completeRequests + 1
    /\ completesInFlight' = completesInFlight + 1
    /\ isReflectionModalOpen' = FALSE
    /\ flowEvent' = "saved"
    /\ UNCHANGED <<actionStatus, otherThanFlow>>

\* saveReflectionMutation.onError: a toast, nothing else
ReflectionFailed ==
    /\ reflectionPending
    /\ reflectionPending' = FALSE
    /\ flowEvent' = "saveFailed"
    /\ UNCHANGED <<isReflectionModalOpen, completeRequests, completesInFlight,
                   actionStatus, otherThanFlow>>

\* handleSkip: onSkip() is handleReflectionSkip, which sends the completion
\* request and closes the modal; the Skip button is never disabled
SkipReflection ==
    /\ isReflectionModalOpen
    /\ completeRequests' = completeRequests + 1
    /\ completesInFlight' = completesInFlight + 1
    /\ isReflectionModalOpen' = FALSE
    /\ flowEvent' = "skip"
    /\ UNCHANGED <<reflectionPending, actionStatus, otherThanFlow>>

\* onClose: the dialog's close button, Escape or a click outside
CloseModal ==
    /\ isReflectionModalOpen
    /\ isReflectionModalOpen' = FALSE
    /\ flowEvent' = "close"
    /\ UNCHANGED <<reflectionPending, completeRequests, completesInFlight,
                   actionStatus, otherThanFlow>>

\* completeMutation settles: onSuccess refreshes the action, now completed;
\* onError shows a toast
CompleteAnswered ==
    /\ completesInFlight > 0
    /\ completesInFlight' = completesInFlight - 1
    /\ \E ok \in BOOLEAN :
          /\ actionStatus' = IF ok THEN "completed" ELSE actionStatus
          /\ flowEvent' = IF ok THEN "completed" ELSE "completeFailed"
    /\ UNCHANGED <<isReflectionModalOpen, reflectionPending, completeRequests, otherThanFlow>>

NextFlow ==
    \/ StartAction
    \/ SubmitReflection
    \/ ReflectionSaved
    \/ ReflectionFailed
    \/ SkipReflection
    \/ CloseModal
    \/ CompleteAnswered

SpecFlow == InitFlow /\ [][NextFlow]_vars

\* C27: pressing Start or Rescue only opens the reflection modal and sends no
\* completion request; a completion request is sent, one at a time, only in
\* the step where the reflection was saved successfully or Skip was pressed;
\* closing the modal and a failed save send none.
C27_CompletionOnlyAfterReflection ==
    [][/\ flowEvent' = "start" =>
             isReflectionModalOpen' /\ completeRequests' = completeRequests
       /\ completeRequests' # completeRequests =>
             flowEvent' \in {"saved", "skip"} /\ completeRequests' = completeRequests + 1
       /\ flowEvent' \in {"saved", "skip"} =>
             completeRequests' = completeRequests + 1 /\ ~isReflectionModalOpen'
       /\ flowEvent' \in {"close", "saveFailed", "submit"} =>
             completeRequests' = completeRequests]_vars

\* the reflection was saved and the one completion request has been sent
C27_Witness ==
    /\ flowEvent = "saved"
    /\ completeRequests = 1
    /\ completesInFlight = 1
    /\ ~isReflectionModalOpen

(***************************************************************************)
(* The daily-habits check-in of a date that has no record on the server    *)
(* when the component mounts.  habitSave holds the method of the save      *)
(* request in flight.                                                      *)
(***************************************************************************)
\* useQuery starts the GET at mount; isLoading is true until it settles
InitHabits ==
    /\ serverHabit = FALSE
    /\ existingHabit = "undefined"
    /\ isLoading = TRUE
    /\ habitFetch = TRUE
    /\ habitSave = "none"
    /\ savedOnce = FALSE
    /\ habitSaves = 0
    /\ isEditing = FALSE
    /\ CalculatorIdle
    /\ AuthIdle
    /\ FlowIdle
    /\ LanguageIdle

\* the GET /api/daily-habits/{date} in flight settles: its data replaces the
\* cached data, an error leaves the cached data as it was
HabitFetched ==
    /\ habitFetch
    /\ habitFetch' = FALSE
    /\ isLoading' = FALSE
    /\ \E ok \in BOOLEAN :
          existingHabit' = IF ok THEN (IF serverHabit THEN "record" ELSE "null")
                           ELSE existingHabit
    \* the effect on existingHabit copies a new record into the form
    /\ isEditing' = IF existingHabit' = "record" /\ existingHabit # "record"
                     THEN FALSE ELSE isEditing
    /\ UNCHANGED <<serverHabit, habitSave, savedOnce, habitSaves, otherThanHabits>>

\* handleHabitToggle, and typing a note: the form is being edited (the
\* switches themselves are not modelled, so a toggle of a form already being
\* edited changes nothing here)
HandleHabitToggle ==
    /\ ~isLoading
    /\ ~isEditing
    /\ isEditing' = TRUE
    /\ UNCHANGED <<serverHabit, existingHabit, isLoading, habitFetch, habitSave, savedOnce,
                   habitSaves, otherThanHabits>>

\* handleSave: the Save button is rendered once the query has loaded and is
\* disabled while a save is pending; mutationFn picks the method
HandleSave ==
    /\ ~isLoading
    /\ habitSave = "none"
    /\ habitSaves < MaxSaves
    /\ habitSave' = SaveMethod(existingHabit)
    /\ habitSaves' = habitSaves + 1
    /\ UNCHANGED <<serverHabit, existingHabit, isLoading, habitFetch, savedOnce, isEditing,
                   otherThanHabits>>

\* the save settles: onSuccess invalidates the query, which starts a refetch
\* (replacing one in flight); onError shows a toast
HabitSaved ==
    /\ habitSave # "none"
    /\ habitSave' = "none"
    /\ \E ok \in BOOLEAN :
          /\ serverHabit' = (serverHabit \/ ok)
          /\ savedOnce' = (savedOnce \/ ok)
          /\ habitFetch' = (habitFetch \/ ok)
          /\ isEditing' = IF ok THEN FALSE ELSE isEditing
    /\ UNCHANGED <<existingHabit, isLoading, habitSaves, otherThanHabits>>

NextHabits ==
    \/ HabitFetched
    \/ HandleHabitToggle
    \/ HandleSave
    \/ HabitSaved

SpecHabits == InitHabits /\ [][NextHabits]_vars

\* C28: for a date with no record on the server, once one save has succeeded
\* every save sent afterwards is a PATCH, never a second POST, whatever the
\* order of the save's success, the refetch and further presses of Save.
C28_LaterSavesArePatch ==
    [][(savedOnce /\ habitSave = "none" /\ habitSave' # "none") => habitSave' = "PATCH"]_vars

(***************************************************************************)
(* The language provider: it starts with whatever localStorage holds under *)
(* growthgarden-language; components call t(key), setLanguage and the      *)
(* switcher's toggleLanguage.                                              *)
(***************************************************************************)
\* the provider before its first render, over what localStorage may hold
InitLanguage ==
    /\ savedLanguage \in StoredLanguages
    /\ language = "unset"
    /\ languagePc = "mount"
    /\ translation = "none"
    /\ languageChanges = 0
    /\ CalculatorIdle
    /\ AuthIdle
    /\ FlowIdle
    /\ HabitIdle

\* the first render: useState runs its initialiser
MountLanguage ==
    /\ languagePc = "mount"
    /\ language' = InitialLanguage(savedLanguage)
    /\ languagePc' = "ready"
    /\ UNCHANGED <<savedLanguage, translation, languageChanges, otherThanLanguage>>

\* a component renders t(key)
TranslateKey ==
    /\ languagePc = "ready"
    /\ \E key \in Keys : translation' = Translate(language, key)
    /\ UNCHANGED <<savedLanguage, language, languagePc, languageChanges, otherThanLanguage>>

\* handleSetLanguage: setLanguage(newLanguage); localStorage.setItem(...);
\* its typed callers pass one of the two languages
SetLanguage ==
    /\ languagePc = "ready"
    /\ languageChanges < MaxLanguageChanges
    /\ \E newLanguage \in Languages :
          /\ language' = newLanguage
          /\ savedLanguage' = newLanguage
    /\ languageChanges' = languageChanges + 1
    /\ UNCHANGED <<languagePc, translation, otherThanLanguage>>

\* toggleLanguage of the language switcher: setLanguage of the other language
ToggleLanguage ==
    /\ languagePc = "ready"
    /\ languageChanges < MaxLanguageChanges
    /\ language' = Toggled(language)
    /\ savedLanguage' = Toggled(language)
    /\ languageChanges' = languageChanges + 1
    /\ UNCHANGED <<languagePc, translation, otherThanLanguage>>

NextLanguage ==
    \/ MountLanguage
    \/ TranslateKey
    \/ ToggleLanguage
    \/ SetLanguage

SpecLanguage == InitLanguage /\ [][NextLanguage]_vars

\* C30: whatever is stored under growthgarden-language at start-up, the active
\* language is 'en' or 'zh', so t(key) never fails; after a setLanguage the
\* stored preference equals the active language; toggling twice gives the
\* language back.
C30_LanguageAlwaysKnown ==
    languagePc = "ready" =>
        /\ language \in Languages
        /\ translation # "TypeError"
        /\ languageChanges > 0 => savedLanguage = language
        /\ Toggled(Toggled(language)) = language

\* The calendar on concrete dates: the text of 2024-01-01, the round trip of
\* a date through its text, and "Fri Jan 05 2024" sorting before
\* "Mon Jan 01 2024".
CalendarSanity ==
    /\ toDateString(ReportOn(Jan2024(1))) =
           <<77, 111, 110, 32, 74, 97, 110, 32, 48, 49, 32, 50, 48, 50, 52>>
    /\ \A d \in ReportDays : DateStringTime(toDateString(CompletedOn(d).time)) = d * TicksPerDay
    /\ StringLess(toDateString(ReportOn(Jan2024(5))), toDateString(ReportOn(Jan2024(1))))
    /\ CivilFromDays(WindowStart) = [year |-> 2023, month |-> 12, day |-> 30]

====
